---- MODULE Spec2Model ----
(***************************************************************************)
(* Model of src/index.js, ServerlessApiCloudFrontPlugin: the hook          *)
(* createDeploymentArtifacts (template load, the 14 prepare* rules, the    *)
(* tag conversion, the lodash merge into the compiled template) and the    *)
(* hook printSummary.                                                      *)
(*                                                                         *)
(* JavaScript values are tagged records, one field name per type, so that  *)
(* `===`, Array.isArray and truthiness are computed and not assumed:       *)
(*   [t |-> "undefined"]  [t |-> "null"]  [t |-> "boolean", b |-> _]       *)
(*   [t |-> "string", s |-> _]  [t |-> "number", n |-> _]                  *)
(*   [t |-> "array", l |-> <<...>>]  [t |-> "object", o |-> [key |-> _]]   *)
(* A key is present in an object exactly when it is in DOMAIN of its `o`.  *)
(***************************************************************************)
EXTENDS Integers, Sequences, FiniteSets, TLC

VARIABLES
    custom,         \* serverless.service.custom.apiCloudFront (read-only)
    stage,          \* this.options.stage
    tags,           \* serverless.service.provider.tags
    baseResources,  \* serverless.service.provider.compiledCloudFormationTemplate
    resourcesYml,   \* the parsed content of the file resources.yml
    resources,      \* the parsed copy of resources.yml the rules mutate
    pc,             \* position inside createDeploymentArtifacts
    applied,        \* names of the rules invoked so far in this run, in order
    tagsApplied,    \* whether the tag step (lines 29-36) was reached
    result,         \* what createDeploymentArtifacts returned
    plugins,        \* pluginManager.getPlugins() as printSummary last saw it
    console,        \* lines written through serverless.cli.consoleLog
    summaryCalls    \* number of printSummary invocations so far

vars == <<custom, stage, tags, baseResources, resourcesYml, resources, pc, applied,
          tagsApplied, result, plugins, console, summaryCalls>>

----------------------------------------------------------------------------
(* JavaScript values *)

Undefined == [t |-> "undefined"]
Null      == [t |-> "null"]
Bool(x)   == [t |-> "boolean", b |-> x]
Str(x)    == [t |-> "string", s |-> x]
Num(x)    == [t |-> "number", n |-> x]
Arr(x)    == [t |-> "array", l |-> x]
Obj(x)    == [t |-> "object", o |-> x]

EmptyMap  == [k \in {} |-> Undefined]
EmptyObj  == Obj(EmptyMap)

IsArray(v)  == v.t = "array"
IsObject(v) == v.t = "object"

\* JavaScript truthiness (ToBoolean), as used by `if (x)` and `x ? a : b`.
Truthy(v) ==
    CASE v.t = "undefined" -> FALSE
      [] v.t = "null"      -> FALSE
      [] v.t = "boolean"   -> v.b
      [] v.t = "string"    -> v.s # ""
      [] v.t = "number"    -> v.n # 0
      [] OTHER             -> TRUE

RECURSIVE ToStr(_)
RECURSIVE JoinComma(_)

\* Array.prototype.join(","): null and undefined elements render empty.
JoinComma(l) ==
    IF Len(l) = 0 THEN ""
    ELSE LET h == IF Head(l).t \in {"undefined", "null"} THEN "" ELSE ToStr(Head(l))
         IN  IF Len(l) = 1 THEN h ELSE h \o "," \o JoinComma(Tail(l))

\* String conversion inside a template literal `${v}`.
ToStr(v) ==
    CASE v.t = "undefined" -> "undefined"
      [] v.t = "null"      -> "null"
      [] v.t = "boolean"   -> (IF v.b THEN "true" ELSE "false")
      [] v.t = "string"    -> v.s
      [] v.t = "number"    -> ToString(v.n)
      [] v.t = "array"     -> JoinComma(v.l)
      [] OTHER             -> "[object Object]"

----------------------------------------------------------------------------
(* Property paths. A path is a sequence of keys; a key of an array is its  *)
(* zero-based index.                                                       *)

HasKey(v, k) ==
    CASE v.t = "object" -> k \in DOMAIN v.o
      [] v.t = "array"  -> k + 1 \in DOMAIN v.l
      [] OTHER          -> FALSE

Prop(v, k) ==
    IF ~HasKey(v, k) THEN Undefined
    ELSE IF v.t = "object" THEN v.o[k] ELSE v.l[k + 1]

RECURSIVE Get(_, _)
Get(v, path) ==
    IF Len(path) = 0 THEN v ELSE Get(Prop(v, Head(path)), Tail(path))

Has(v, path) ==
    /\ Len(path) > 0
    /\ HasKey(Get(v, SubSeq(path, 1, Len(path) - 1)), path[Len(path)])

\* obj[k] = val
PutProp(v, k, val) ==
    IF v.t = "object"
    THEN Obj([x \in DOMAIN v.o \cup {k} |-> IF x = k THEN val ELSE v.o[x]])
    ELSE Arr([v.l EXCEPT ![k + 1] = val])

\* delete obj[k]
DelProp(v, k) ==
    IF v.t = "object" THEN Obj([x \in DOMAIN v.o \ {k} |-> v.o[x]]) ELSE v

\* root.a.b.c = val; the parent root.a.b exists (see CanSet).
RECURSIVE Set(_, _, _)
Set(v, path, val) ==
    IF Len(path) = 1 THEN PutProp(v, path[1], val)
    ELSE PutProp(v, Head(path), Set(Prop(v, Head(path)), Tail(path), val))

\* delete root.a.b.c
RECURSIVE Del(_, _)
Del(v, path) ==
    IF Len(path) = 1 THEN DelProp(v, path[1])
    ELSE IF ~HasKey(v, Head(path)) THEN v
    ELSE PutProp(v, Head(path), Del(Prop(v, Head(path)), Tail(path)))

\* An assignment root.a.b.c = val raises TypeError when root.a.b is
\* undefined or null.
CanSet(v, path) ==
    Get(v, SubSeq(path, 1, Len(path) - 1)).t \in {"object", "array"}

----------------------------------------------------------------------------
(* Inputs. Every input has a default (index 0: the key is not configured)  *)
(* and a few alternatives; a run varies at most MaxVaried inputs at once.  *)

MaxVaried == 2

ConfigNames ==
    {"logging.bucket", "logging.prefix", "domain", "httpApi", "priceClass",
     "originCustomHeaders", "cookies", "headers", "cachePolicyId",
     "originRequestPolicyId", "ttl", "querystring", "certificate", "waf",
     "compress", "minimumProtocolVersion"}

InputNames == ConfigNames \cup {"stage", "tags", "template", "baseResources"}

\* The configured alternatives of a key of custom.apiCloudFront.
Alts(k) ==
    CASE k = "logging.bucket" -> <<Str("logs.s3.amazonaws.com")>>
      [] k = "logging.prefix" -> <<Str("cf/")>>
      [] k = "domain" ->
            <<Str("example.com"), Arr(<<Str("a.com"), Str("b.com")>>), Null>>
      [] k = "httpApi" -> <<Bool(TRUE), Bool(FALSE)>>
      [] k = "priceClass" -> <<Str("PriceClass_100")>>
      [] k = "originCustomHeaders" ->
            <<Arr(<<Obj([Authorization |-> Str("secret")])>>)>>
      [] k = "cookies" -> <<Arr(<<Str("session")>>), Str("none")>>
      [] k = "headers" -> <<Arr(<<Str("Accept")>>), Str("all")>>
      [] k = "cachePolicyId" -> <<Str("cache-policy-1")>>
      [] k = "originRequestPolicyId" -> <<Str("origin-policy-1")>>
      [] k = "ttl" ->
            <<Obj([default |-> Num(60), max |-> Num(120), min |-> Num(1)])>>
      [] k = "querystring" -> <<Arr(<<Str("id")>>), Str("none"), Str("all")>>
      [] k = "certificate" -> <<Str("arn:x")>>
      [] k = "waf" -> <<Str("waf-1")>>
      [] k = "compress" -> <<Bool(TRUE), Str("true"), Bool(FALSE)>>
      [] k = "minimumProtocolVersion" -> <<Str("TLSv1.2_2021"), Str("")>>
      [] k = "stage" -> <<Str("dev")>>
      [] k = "tags" -> <<Obj([team |-> Str("api")]), EmptyObj>>
      [] k = "template" -> <<Num(1)>>
      [] k = "baseResources" -> <<Num(1), Num(2), Num(3)>>

RECURSIVE SubsetsUpTo(_)
SubsetsUpTo(n) ==
    IF n = 0 THEN {{}}
    ELSE LET P == SubsetsUpTo(n - 1)
         IN  P \cup {S \cup {x} : S \in P, x \in InputNames}

MostAlts ==
    CHOOSE n \in {Len(Alts(k)) : k \in InputNames} :
        \A k \in InputNames : Len(Alts(k)) <= n

\* Every choice of alternatives that departs from the defaults on at most
\* MaxVaried inputs.
Picks ==
    UNION { { [k \in InputNames |-> IF k \in K THEN f[k] ELSE 0] :
                f \in {g \in [K -> 1..MostAlts] : \A k \in K : g[k] <= Len(Alts(k))} } :
            K \in SubsetsUpTo(MaxVaried) }

Picked(p, k) == IF p[k] = 0 THEN Undefined ELSE Alts(k)[p[k]]

\* serverless.service.custom.apiCloudFront as the service file gives it:
\* only the configured keys are present, `logging` is a nested map.
CustomOf(p) ==
    LET flat == {k \in ConfigNames \ {"logging.bucket", "logging.prefix"} : p[k] # 0}
        sub  == {k \in {"bucket", "prefix"} : p["logging." \o k] # 0}
        keys == flat \cup (IF sub = {} THEN {} ELSE {"logging"})
    IN  IF keys = {} THEN Undefined
        ELSE Obj([k \in keys |->
                    IF k = "logging"
                    THEN Obj([j \in sub |-> Picked(p, "logging." \o j)])
                    ELSE Picked(p, k)])

\* resources.yml, the static template of the distribution. The keys are
\* those of the data model; alternative 1 holds other values and no Aliases.
Template(i) ==
    LET origin == Obj([Id |-> Str("ApiGateway"),
                       DomainName |-> Str("domain.tld"),
                       OriginPath |-> IF i = 0 THEN Str("/dev") ELSE Str("")])
        cookies == Obj([Forward |-> IF i = 0 THEN Str("all") ELSE Str("none")])
        forwarded == Obj([QueryString |-> Bool(i = 0),
                          Headers |-> Arr(<<>>),
                          Cookies |-> cookies])
        behavior == Obj([ForwardedValues |-> forwarded,
                         MinTTL |-> Num(0),
                         DefaultTTL |-> Num(0),
                         Compress |-> IF i = 0 THEN Bool(TRUE) ELSE Str("false")])
        common == [Origins |-> Arr(<<origin>>),
                   Enabled |-> Bool(TRUE),
                   Comment |-> Str("cdn for api gateway"),
                   PriceClass |-> Str("PriceClass_All"),
                   DefaultCacheBehavior |-> behavior,
                   ViewerCertificate |->
                       Obj([AcmCertificateArn |-> Str("arn"),
                            SslSupportMethod |-> Str("sni-only")]),
                   Logging |->
                       Obj([IncludeCookies |-> Str("false"),
                            Bucket |-> Str(""),
                            Prefix |-> Str("")]),
                   WebACLId |-> Str("waf")]
        dc == IF i = 0 THEN PutProp(Obj(common), "Aliases", Arr(<<Str("domain.tld")>>))
              ELSE Obj(common)
    IN  Obj([Resources |->
               Obj([ApiDistribution |->
                      Obj([Type |-> Str("AWS::CloudFront::Distribution"),
                           Properties |-> Obj([DistributionConfig |-> dc])])]),
             Outputs |->
               Obj([ApiDistribution |-> Obj([Value |-> Str("DomainName")])])])

\* The compiled template the host hands over: a service with one resource
\* (0), no key at all (1), an empty resource map (2), or a service that
\* already declares parts of ApiDistribution itself (3).
CompiledTemplate(i) ==
    LET bucket == Obj([Type |-> Str("AWS::S3::Bucket")])
        own == Obj([DependsOn |-> Str("ServerlessDeploymentBucket"),
                    Properties |->
                      Obj([DistributionConfig |->
                             Obj([HttpVersion |-> Str("http2"),
                                  Enabled |-> Bool(FALSE),
                                  Aliases |-> Arr(<<Str("x.com"), Str("y.com"),
                                                    Str("z.com")>>)])])])
    IN  CASE i = 0 -> Obj([Resources |-> Obj([ServerlessDeploymentBucket |-> bucket])])
          [] i = 1 -> EmptyObj
          [] i = 2 -> Obj([Resources |-> EmptyObj])
          [] OTHER -> Obj([Resources |->
                             Obj([ServerlessDeploymentBucket |-> bucket,
                                  ApiDistribution |-> own])])

\* getConfig(field, defaultValue): _.get returns the default exactly when
\* the path resolves to undefined (a null value is returned as it is).
getConfig(field, defaultValue) ==
    LET v == Get(custom, field)
    IN  IF v.t = "undefined" THEN defaultValue ELSE v

----------------------------------------------------------------------------
(* The 14 rules. Each prepareX(dc) is the DistributionConfig the rule      *)
(* leaves; prepareXThrows(dc) is the case in which its first assignment    *)
(* dereferences a missing block and raises TypeError.                      *)

DCPath == <<"Resources", "ApiDistribution", "Properties", "DistributionConfig">>

ForwardedValues == <<"DefaultCacheBehavior", "ForwardedValues">>

prepareLoggingThrows(dc) ==
    /\ getConfig(<<"logging", "bucket">>, Null).t # "null"
    /\ ~CanSet(dc, <<"Logging", "Bucket">>)

\* Mutant: the else branch forgets to delete the block.
prepareLoggingKeepsBlock(dc) ==
    LET loggingBucket == getConfig(<<"logging", "bucket">>, Null)
    IN  IF loggingBucket.t # "null"
        THEN Set(Set(dc, <<"Logging", "Bucket">>, loggingBucket),
                 <<"Logging", "Prefix">>, getConfig(<<"logging", "prefix">>, Str("")))
        ELSE dc

prepareLogging(dc) ==
    LET loggingBucket == getConfig(<<"logging", "bucket">>, Null)
    IN  IF loggingBucket.t # "null"
        THEN Set(Set(dc, <<"Logging", "Bucket">>, loggingBucket),
                 <<"Logging", "Prefix">>, getConfig(<<"logging", "prefix">>, Str("")))
        ELSE Del(dc, <<"Logging">>)

\* Mutant: the domain is wrapped in a list without the Array.isArray test.
prepareDomainAlwaysWraps(dc) ==
    LET domain == getConfig(<<"domain">>, Null)
    IN  IF domain.t # "null"
        THEN Set(dc, <<"Aliases">>, Arr(<<domain>>))
        ELSE Del(dc, <<"Aliases">>)

prepareDomain(dc) ==
    LET domain  == getConfig(<<"domain">>, Null)
        httpApi == getConfig(<<"httpApi">>, Bool(FALSE))
        ref     == IF Truthy(httpApi) THEN Str("HttpApi") ELSE Str("ApiGatewayRestApi")
        join    == Arr(<<Str(""),
                         Arr(<<Obj([Ref |-> ref]),
                               Str(".execute-api."),
                               Obj([Ref |-> Str("AWS::Region")]),
                               Str(".amazonaws.com")>>)>>)
        dc1     == IF domain.t # "null"
                   THEN Set(dc, <<"Aliases">>,
                            IF IsArray(domain) THEN domain ELSE Arr(<<domain>>))
                   ELSE Del(dc, <<"Aliases">>)
    IN  Set(dc1, <<"Origins", 0, "DomainName">>, Obj("Fn::Join" :> join))

preparePriceClass(dc) ==
    Set(dc, <<"PriceClass">>, getConfig(<<"priceClass">>, Str("PriceClass_All")))

\* _.zipObject(['HeaderName', 'HeaderValue'], _.head(_.toPairs(h))): the first
\* key of the map and its value; an empty map gives two undefined fields.
HeaderPair(h) ==
    IF IsObject(h) /\ DOMAIN h.o # {}
    THEN LET k == CHOOSE x \in DOMAIN h.o : TRUE
         IN  Obj([HeaderName |-> Str(k), HeaderValue |-> h.o[k]])
    ELSE Obj([HeaderName |-> Undefined, HeaderValue |-> Undefined])

\* Mutant: the httpApi override of OriginPath (lines 136-137) is missing.
prepareOriginsStageOnly(dc) ==
    LET originCustomHeaders == getConfig(<<"originCustomHeaders">>, Arr(<<>>))
        headers == Arr([i \in DOMAIN originCustomHeaders.l |->
                          HeaderPair(originCustomHeaders.l[i])])
        dc1 == Set(dc, <<"Origins", 0, "OriginCustomHeaders">>, headers)
    IN  Set(dc1, <<"Origins", 0, "OriginPath">>, Str("/" \o ToStr(stage)))

prepareOrigins(dc) ==
    LET originCustomHeaders == getConfig(<<"originCustomHeaders">>, Arr(<<>>))
        httpApi == getConfig(<<"httpApi">>, Bool(FALSE))
        headers == Arr([i \in DOMAIN originCustomHeaders.l |->
                          HeaderPair(originCustomHeaders.l[i])])
        dc1 == Set(dc, <<"Origins", 0, "OriginCustomHeaders">>, headers)
        dc2 == Set(dc1, <<"Origins", 0, "OriginPath">>, Str("/" \o ToStr(stage)))
    IN  Set(dc2, <<"Origins", 0, "OriginPath">>,
            IF Truthy(httpApi) THEN Str("") ELSE Str("/" \o ToStr(stage)))

\* Mutant: WhitelistedNames is written whatever the type of `cookies`.
prepareCookiesAlwaysWhitelists(dc) ==
    LET forwardCookies == getConfig(<<"cookies">>, Str("all"))
        dc1 == Set(dc, ForwardedValues \o <<"Cookies", "Forward">>,
                   IF IsArray(forwardCookies) THEN Str("whitelist") ELSE forwardCookies)
    IN  Set(dc1, ForwardedValues \o <<"Cookies", "WhitelistedNames">>, forwardCookies)

prepareCookies(dc) ==
    LET forwardCookies == getConfig(<<"cookies">>, Str("all"))
        dc1 == Set(dc, ForwardedValues \o <<"Cookies", "Forward">>,
                   IF IsArray(forwardCookies) THEN Str("whitelist") ELSE forwardCookies)
    IN  IF IsArray(forwardCookies)
        THEN Set(dc1, ForwardedValues \o <<"Cookies", "WhitelistedNames">>, forwardCookies)
        ELSE dc1

prepareHeaders(dc) ==
    LET forwardHeaders == getConfig(<<"headers">>, Str("none"))
    IN  Set(dc, ForwardedValues \o <<"Headers">>,
            IF IsArray(forwardHeaders) THEN forwardHeaders
            ELSE IF forwardHeaders = Str("none") THEN Arr(<<>>)
            ELSE Arr(<<Str("*")>>))

prepareTTL(dc) ==
    LET ttl == getConfig(<<"ttl">>, Null)
    IN  IF Truthy(ttl)
        THEN Set(Set(Set(dc, <<"DefaultCacheBehavior", "DefaultTTL">>, Prop(ttl, "default")),
                     <<"DefaultCacheBehavior", "MaxTTL">>, Prop(ttl, "max")),
                 <<"DefaultCacheBehavior", "MinTTL">>, Prop(ttl, "min"))
        ELSE dc

preparePolicies(dc) ==
    LET cachePolicyId == getConfig(<<"cachePolicyId">>, Null)
        originRequestPolicyId == getConfig(<<"originRequestPolicyId">>, Null)
        dc1 == IF Truthy(cachePolicyId)
               THEN Set(dc, <<"DefaultCacheBehavior", "CachePolicyId">>, cachePolicyId)
               ELSE dc
    IN  IF Truthy(originRequestPolicyId)
        THEN Set(dc1, <<"DefaultCacheBehavior", "OriginRequestPolicyId">>,
                 originRequestPolicyId)
        ELSE dc1

\* Mutant: a scalar is tested for truthiness instead of compared with 'all'.
prepareQueryStringTruthy(dc) ==
    LET forwardQueryString == getConfig(<<"querystring">>, Str("all"))
    IN  IF IsArray(forwardQueryString)
        THEN Set(Set(dc, ForwardedValues \o <<"QueryString">>, Bool(TRUE)),
                 ForwardedValues \o <<"QueryStringCacheKeys">>, forwardQueryString)
        ELSE Set(dc, ForwardedValues \o <<"QueryString">>,
                 Bool(Truthy(forwardQueryString)))

prepareQueryString(dc) ==
    LET forwardQueryString == getConfig(<<"querystring">>, Str("all"))
    IN  IF IsArray(forwardQueryString)
        THEN Set(Set(dc, ForwardedValues \o <<"QueryString">>, Bool(TRUE)),
                 ForwardedValues \o <<"QueryStringCacheKeys">>, forwardQueryString)
        ELSE Set(dc, ForwardedValues \o <<"QueryString">>,
                 Bool(forwardQueryString = Str("all")))

\* serverless.getProvider('aws').naming.getApiGatewayName(), a name the
\* host derives from the stage and the service.
getApiGatewayName == ToStr(stage) \o "-service"

prepareComment(dc) ==
    Set(dc, <<"Comment">>, Str("Serverless Managed " \o getApiGatewayName))

prepareCertificateThrows(dc) ==
    /\ getConfig(<<"certificate">>, Null).t # "null"
    /\ ~CanSet(dc, <<"ViewerCertificate", "AcmCertificateArn">>)

prepareCertificate(dc) ==
    LET certificate == getConfig(<<"certificate">>, Null)
    IN  IF certificate.t # "null"
        THEN Set(dc, <<"ViewerCertificate", "AcmCertificateArn">>, certificate)
        ELSE Del(dc, <<"ViewerCertificate">>)

prepareWaf(dc) ==
    LET waf == getConfig(<<"waf">>, Null)
    IN  IF waf.t # "null" THEN Set(dc, <<"WebACLId">>, waf) ELSE Del(dc, <<"WebACLId">>)

\* Mutant: truthiness instead of `=== true`.
prepareCompressTruthy(dc) ==
    Set(dc, <<"DefaultCacheBehavior", "Compress">>,
        Bool(Truthy(getConfig(<<"compress">>, Bool(FALSE)))))

prepareCompress(dc) ==
    Set(dc, <<"DefaultCacheBehavior", "Compress">>,
        Bool(getConfig(<<"compress">>, Bool(FALSE)) = Bool(TRUE)))

prepareMinimumProtocolVersionThrows(dc) ==
    /\ Truthy(getConfig(<<"minimumProtocolVersion">>, Undefined))
    /\ ~CanSet(dc, <<"ViewerCertificate", "MinimumProtocolVersion">>)

prepareMinimumProtocolVersion(dc) ==
    LET minimumProtocolVersion == getConfig(<<"minimumProtocolVersion">>, Undefined)
    IN  IF Truthy(minimumProtocolVersion)
        THEN Set(dc, <<"ViewerCertificate", "MinimumProtocolVersion">>,
                 minimumProtocolVersion)
        ELSE dc

----------------------------------------------------------------------------
(* createDeploymentArtifacts *)

\* Mutant: MinimumProtocolVersion is called before Certificate.
prepareResourcesVersionFirst ==
    <<"prepareLogging", "prepareDomain", "preparePriceClass", "prepareOrigins",
      "prepareCookies", "prepareHeaders", "prepareTTL", "preparePolicies",
      "prepareQueryString", "prepareComment", "prepareMinimumProtocolVersion",
      "prepareWaf", "prepareCompress", "prepareCertificate">>

\* The calls of prepareResources, in the order of its body.
prepareResources ==
    <<"prepareLogging", "prepareDomain", "preparePriceClass", "prepareOrigins",
      "prepareCookies", "prepareHeaders", "prepareTTL", "preparePolicies",
      "prepareQueryString", "prepareComment", "prepareCertificate", "prepareWaf",
      "prepareCompress", "prepareMinimumProtocolVersion">>

IndexOf(name) == CHOOSE i \in DOMAIN prepareResources : prepareResources[i] = name

\* Where control goes when rule `name` returns.
After(name) ==
    IF IndexOf(name) = Len(prepareResources) THEN "tags"
    ELSE prepareResources[IndexOf(name) + 1]

DC == Get(resources, DCPath)

\* One call of prepareResources: the rule either raises, which ends the
\* hook with nothing merged, or leaves `new` as the DistributionConfig.
Rule(name, throws, new) ==
    /\ pc = name
    /\ applied' = Append(applied, name)
    /\ IF throws
       THEN pc' = "failed" /\ UNCHANGED resources
       ELSE pc' = After(name) /\ resources' = Set(resources, DCPath, new)
    /\ UNCHANGED <<custom, stage, tags, baseResources, resourcesYml, tagsApplied,
                   result, plugins, console, summaryCalls>>

\* Lines 19-25. The host runs the packaging hook before the info hook, so a
\* process that has printed its summary packages nothing afterwards.
Load ==
    /\ pc = "idle"
    /\ summaryCalls = 0
    /\ resources' = resourcesYml
    /\ pc' = prepareResources[1]
    /\ UNCHANGED <<custom, stage, tags, baseResources, resourcesYml, applied,
                   tagsApplied, result, plugins, console, summaryCalls>>

Logging == Rule("prepareLogging", prepareLoggingThrows(DC), prepareLogging(DC))
Domain == Rule("prepareDomain", FALSE, prepareDomain(DC))
PriceClass == Rule("preparePriceClass", FALSE, preparePriceClass(DC))
Origins == Rule("prepareOrigins", FALSE, prepareOrigins(DC))
Cookies == Rule("prepareCookies", FALSE, prepareCookies(DC))
Headers == Rule("prepareHeaders", FALSE, prepareHeaders(DC))
TTL == Rule("prepareTTL", FALSE, prepareTTL(DC))
Policies == Rule("preparePolicies", FALSE, preparePolicies(DC))
QueryString == Rule("prepareQueryString", FALSE, prepareQueryString(DC))
Comment == Rule("prepareComment", FALSE, prepareComment(DC))
Certificate ==
    Rule("prepareCertificate", prepareCertificateThrows(DC), prepareCertificate(DC))
Waf == Rule("prepareWaf", FALSE, prepareWaf(DC))
Compress == Rule("prepareCompress", FALSE, prepareCompress(DC))
MinimumProtocolVersion ==
    Rule("prepareMinimumProtocolVersion", prepareMinimumProtocolVersionThrows(DC),
         prepareMinimumProtocolVersion(DC))

\* Object.entries(m).map(x => ({Key: x[0], Value: x[1]})). The maps of this
\* model keep no insertion order: the entries come in the order CHOOSE
\* fixes, which is the only order for the maps of at most one key used here.
RECURSIVE TagList(_)
TagList(m) ==
    IF DOMAIN m = {} THEN <<>>
    ELSE LET k == CHOOSE x \in DOMAIN m : TRUE
         IN  <<Obj([Key |-> Str(k), Value |-> m[k]])>>
             \o TagList([x \in DOMAIN m \ {k} |-> m[x]])

WithTags(res) ==
    IF Truthy(tags)
    THEN Set(res, <<"Resources", "ApiDistribution", "Properties", "Tags">>,
             Arr(TagList(tags.o)))
    ELSE res

Tags ==
    /\ pc = "tags"
    /\ resources' = WithTags(resources)
    /\ tagsApplied' = TRUE
    /\ pc' = "merge"
    /\ UNCHANGED <<custom, stage, tags, baseResources, resourcesYml, applied,
                   result, plugins, console, summaryCalls>>

\* Mutant: the transformed resources are returned in place of the merge.
MergeReplaces(object, source) == source

\* _.merge(object, source), lodash's baseMerge: maps merge key by key,
\* arrays index by index, anything else is assigned, and an undefined
\* source value never replaces a key the target has.
RECURSIVE Merge(_, _)
RECURSIVE MergeValue(_, _, _)

MergeValue(objValue, present, srcValue) ==
    CASE srcValue.t = "object" ->
            Merge(IF objValue.t = "object" THEN objValue ELSE EmptyObj, srcValue)
      [] srcValue.t = "array" ->
            Merge(IF objValue.t = "array" THEN objValue ELSE Arr(<<>>), srcValue)
      [] srcValue.t = "undefined" -> (IF present THEN objValue ELSE Undefined)
      [] OTHER -> srcValue

Merge(object, source) ==
    IF source.t = "object"
    THEN Obj([k \in DOMAIN object.o \cup DOMAIN source.o |->
                IF k \in DOMAIN source.o
                THEN MergeValue(Prop(object, k), HasKey(object, k), source.o[k])
                ELSE object.o[k]])
    ELSE Arr([i \in DOMAIN object.l \cup DOMAIN source.l |->
                IF i \in DOMAIN source.l
                THEN MergeValue(Prop(object, i - 1), HasKey(object, i - 1), source.l[i])
                ELSE object.l[i]])

MergeIntoBase ==
    /\ pc = "merge"
    /\ baseResources' = Merge(baseResources, resources)
    /\ result' = baseResources'
    /\ pc' = "done"
    /\ UNCHANGED <<custom, stage, tags, resourcesYml, resources, applied,
                   tagsApplied, plugins, console, summaryCalls>>

----------------------------------------------------------------------------
(* printSummary *)

MaxSummaryCalls == 1

\* _.find(list, x => x.<path> === value): the first match, or undefined.
RECURSIVE FindBy(_, _, _)
FindBy(l, path, value) ==
    IF Len(l) = 0 THEN Undefined
    ELSE IF Get(Head(l), path) = value THEN Head(l)
    ELSE FindBy(Tail(l), path, value)

Plugin(name, fields) ==
    Obj([k \in DOMAIN fields \cup {"constructor"} |->
           IF k = "constructor" THEN Obj([name |-> Str(name)]) ELSE fields[k]])

Output(key, value) == Obj([OutputKey |-> Str(key), OutputValue |-> value])

\* The plugin registries a summary call may meet.
PluginRegistries ==
    LET endpoint == Output("ServiceEndpoint", Str("https://api.example"))
        other    == Plugin("AwsDeploy", EmptyMap)
        gathered(outs) == [gatheredData |-> Obj([outputs |-> Arr(outs)])]
    IN  { Arr(<<other>>),
          Arr(<<other, Plugin("AwsInfo", EmptyMap)>>),
          Arr(<<Plugin("AwsInfo", gathered(<<endpoint>>))>>),
          Arr(<<Plugin("AwsInfo", gathered(<<endpoint, Output("ApiDistribution", Str(""))>>))>>),
          Arr(<<Plugin("AwsInfo",
                       gathered(<<Obj([OutputKey |-> Str("ApiDistribution")])>>))>>),
          Arr(<<other,
                Plugin("AwsInfo",
                       gathered(<<endpoint,
                                  Output("ApiDistribution",
                                         Str("d111.cloudfront.net"))>>))>>) }

\* Mutant: the output is printed without the test of its OutputValue.
printSummaryValueUnchecked(ps) ==
    LET awsInfo == FindBy(ps.l, <<"constructor", "name">>, Str("AwsInfo"))
        outputs == Get(awsInfo, <<"gatheredData", "outputs">>)
        apiDistributionDomain ==
            IF IsArray(outputs)
            THEN FindBy(outputs.l, <<"OutputKey">>, Str("ApiDistribution"))
            ELSE Undefined
        cnameDomain == getConfig(<<"domain">>, Str("-"))
    IN  IF ~Truthy(awsInfo) \/ ~Truthy(Prop(awsInfo, "gatheredData")) THEN <<>>
        ELSE IF ~Truthy(apiDistributionDomain) THEN <<>>
        ELSE <<"CloudFront domain name",
               "  " \o ToStr(Prop(apiDistributionDomain, "OutputValue"))
                    \o " (CNAME: " \o ToStr(cnameDomain) \o ")">>

\* The lines printSummary writes when the registry is `ps`.
printSummary(ps) ==
    LET awsInfo == FindBy(ps.l, <<"constructor", "name">>, Str("AwsInfo"))
        outputs == Get(awsInfo, <<"gatheredData", "outputs">>)
        apiDistributionDomain ==
            IF IsArray(outputs)
            THEN FindBy(outputs.l, <<"OutputKey">>, Str("ApiDistribution"))
            ELSE Undefined
        cnameDomain == getConfig(<<"domain">>, Str("-"))
    IN  IF ~Truthy(awsInfo) \/ ~Truthy(Prop(awsInfo, "gatheredData")) THEN <<>>
        ELSE IF ~Truthy(apiDistributionDomain)
                \/ ~Truthy(Prop(apiDistributionDomain, "OutputValue")) THEN <<>>
        ELSE <<"CloudFront domain name",
               "  " \o ToStr(Prop(apiDistributionDomain, "OutputValue"))
                    \o " (CNAME: " \o ToStr(cnameDomain) \o ")">>

PrintSummary ==
    /\ pc \in {"idle", "done"}
    /\ summaryCalls < MaxSummaryCalls
    /\ \E ps \in PluginRegistries :
          /\ plugins' = ps
          /\ console' = console \o printSummary(ps)
    /\ summaryCalls' = summaryCalls + 1
    /\ UNCHANGED <<custom, stage, tags, baseResources, resourcesYml, resources, pc,
                   applied, tagsApplied, result>>

----------------------------------------------------------------------------

Init ==
    \E p \in Picks :
        /\ custom = CustomOf(p)
        /\ stage = (IF p["stage"] = 0 THEN Str("prod") ELSE Picked(p, "stage"))
        /\ tags = Picked(p, "tags")
        /\ baseResources = CompiledTemplate(p["baseResources"])
        /\ resourcesYml = Template(p["template"])
        /\ resources = Undefined
        /\ pc = "idle"
        /\ applied = <<>>
        /\ tagsApplied = FALSE
        /\ result = Undefined
        /\ plugins = Arr(<<>>)
        /\ console = <<>>
        /\ summaryCalls = 0

Next ==
    \/ Load
    \/ Logging
    \/ Domain
    \/ PriceClass
    \/ Origins
    \/ Cookies
    \/ Headers
    \/ TTL
    \/ Policies
    \/ QueryString
    \/ Comment
    \/ Certificate
    \/ Waf
    \/ Compress
    \/ MinimumProtocolVersion
    \/ Tags
    \/ MergeIntoBase
    \/ PrintSummary

Spec == Init /\ [][Next]_vars

----------------------------------------------------------------------------
(* Properties *)

\* All 14 rules have returned: the DistributionConfig is the pipeline's output.
PipelineDone == pc \in {"tags", "merge", "done"}

Configured(field) == Get(custom, field).t # "undefined"

Cfg(field) == Get(custom, field)

\* C1: whenever `certificate` is absent the pipeline completes without
\* raising, whatever minimumProtocolVersion is, and its output has no
\* ViewerCertificate key.
C1_NoCertificateNeverRaises ==
    ~Configured(<<"certificate">>) =>
        /\ pc # "failed"
        /\ PipelineDone => ~Has(DC, <<"ViewerCertificate">>)

\* C2: after the pipeline, Aliases is decided by `domain` alone: absent
\* gives no Aliases key, a string s gives [s], a list gives that list.
C2_AliasesFollowDomain ==
    PipelineDone =>
        LET domain == Cfg(<<"domain">>)
        IN  /\ domain.t = "undefined" => ~Has(DC, <<"Aliases">>)
            /\ domain.t = "string" => Get(DC, <<"Aliases">>) = Arr(<<Str(domain.s)>>)
            /\ domain.t = "array" =>
                  /\ Has(DC, <<"Aliases">>)
                  /\ Get(DC, <<"Aliases">>).l = domain.l

C2_Witness ==
    /\ PipelineDone
    /\ Cfg(<<"domain">>) = Arr(<<Str("a.com"), Str("b.com")>>)
    /\ Get(DC, <<"Aliases">>).l = <<Str("a.com"), Str("b.com")>>
    /\ Get(resourcesYml, DCPath \o <<"Aliases">>).l = <<Str("domain.tld")>>

\* C3: after the pipeline, Origins[0].OriginPath is "" when httpApi is true
\* and "/" followed by the stage when httpApi is absent or false.
C3_OriginPathFollowsHttpApi ==
    PipelineDone =>
        LET httpApi == Cfg(<<"httpApi">>)
            path == Get(DC, <<"Origins", 0, "OriginPath">>)
        IN  /\ httpApi = Bool(TRUE) => path = Str("")
            /\ (httpApi.t = "undefined" \/ httpApi = Bool(FALSE)) =>
                  /\ path.t = "string"
                  /\ path.s = "/" \o stage.s

C3_Witness ==
    /\ PipelineDone
    /\ Cfg(<<"httpApi">>) = Bool(TRUE)
    /\ Get(DC, <<"Origins", 0, "OriginPath">>) = Str("")
    /\ Get(resourcesYml, DCPath \o <<"Origins", 0, "OriginPath">>) = Str("/dev")

\* C4: after the pipeline, a list of cookies gives Forward "whitelist" with
\* WhitelistedNames that list; absent gives Forward "all" and no
\* WhitelistedNames key; any other scalar is Forward verbatim, and the rule
\* writes no WhitelistedNames.
C4_CookiesFollowConfig ==
    PipelineDone =>
        LET cookies == Cfg(<<"cookies">>)
            block == Get(DC, ForwardedValues \o <<"Cookies">>)
        IN  /\ cookies.t = "array" =>
                  /\ Prop(block, "Forward") = Str("whitelist")
                  /\ HasKey(block, "WhitelistedNames")
                  /\ Prop(block, "WhitelistedNames") = cookies
            /\ cookies.t = "undefined" =>
                  /\ Prop(block, "Forward") = Str("all")
                  /\ ~HasKey(block, "WhitelistedNames")
            /\ cookies.t \notin {"array", "undefined"} =>
                  /\ Prop(block, "Forward") = cookies
                  /\ ~HasKey(block, "WhitelistedNames")

C4_Witness ==
    /\ PipelineDone
    /\ Cfg(<<"cookies">>) = Arr(<<Str("session")>>)
    /\ Get(DC, ForwardedValues \o <<"Cookies", "WhitelistedNames">>).l = <<Str("session")>>
    /\ Get(DC, ForwardedValues \o <<"Cookies", "Forward">>) = Str("whitelist")

\* C5: after the pipeline, querystring absent or "all" gives QueryString
\* true and no QueryStringCacheKeys key; a list gives true and the list as
\* QueryStringCacheKeys; any other scalar gives false.
C5_QueryStringFollowsConfig ==
    PipelineDone =>
        LET querystring == Cfg(<<"querystring">>)
            fv == Get(DC, ForwardedValues)
        IN  /\ (querystring.t = "undefined" \/ querystring = Str("all")) =>
                  /\ Prop(fv, "QueryString") = Bool(TRUE)
                  /\ ~HasKey(fv, "QueryStringCacheKeys")
            /\ querystring.t = "array" =>
                  /\ Prop(fv, "QueryString") = Bool(TRUE)
                  /\ Prop(fv, "QueryStringCacheKeys") = querystring
            /\ (querystring.t \notin {"undefined", "array"} /\ querystring # Str("all")) =>
                  Prop(fv, "QueryString") = Bool(FALSE)

C5_Witness ==
    /\ PipelineDone
    /\ Cfg(<<"querystring">>) = Str("none")
    /\ Get(DC, ForwardedValues \o <<"QueryString">>) = Bool(FALSE)

\* C6: after the pipeline, Compress is a boolean, and it is true exactly
\* when the `compress` value is the boolean true.
C6_CompressIsStrictBoolean ==
    PipelineDone =>
        LET compress == Get(DC, <<"DefaultCacheBehavior", "Compress">>)
        IN  /\ compress.t = "boolean"
            /\ compress.b <=> (Cfg(<<"compress">>) = Bool(TRUE))

C6_Witness ==
    /\ PipelineDone
    /\ Cfg(<<"compress">>) = Str("true")
    /\ Get(DC, <<"DefaultCacheBehavior", "Compress">>) = Bool(FALSE)
    /\ Get(resourcesYml, DCPath \o <<"DefaultCacheBehavior", "Compress">>) = Bool(TRUE)

\* The 14 rules composed in the order of prepareResources.
AllRules(dc) ==
    prepareMinimumProtocolVersion(prepareCompress(prepareWaf(prepareCertificate(
    prepareComment(prepareQueryString(preparePolicies(prepareTTL(prepareHeaders(
    prepareCookies(prepareOrigins(preparePriceClass(prepareDomain(
    prepareLogging(dc))))))))))))))

ExpectedProperties ==
    LET dc == AllRules(Get(resourcesYml, DCPath))
    IN  IF tags.t = "undefined"
        THEN Obj([DistributionConfig |-> dc])
        ELSE Obj([DistributionConfig |-> dc, Tags |-> Arr(TagList(tags.o))])

IsEmptyTemplate(t) ==
    \/ DOMAIN t.o = {}
    \/ DOMAIN t.o = {"Resources"} /\ DOMAIN t.o.Resources.o = {}

\* C7: the merge step leaves every resource of the caller's template whose
\* key is not among the transformed resources as it was, and into an empty
\* template it yields ApiDistribution as the only resource, its properties
\* being those the 14 rules computed plus Tags when tags are defined.
C7_MergeKeepsOtherResources ==
    [][(pc = "merge" /\ pc' = "done") =>
          LET before == Get(baseResources, <<"Resources">>)
              after  == Get(baseResources', <<"Resources">>)
              ours   == Get(resources, <<"Resources">>)
          IN  /\ result' = baseResources'
              /\ \A k \in (IF before.t = "object" THEN DOMAIN before.o ELSE {})
                            \ DOMAIN ours.o :
                    HasKey(after, k) /\ after.o[k] = before.o[k]
              /\ IsEmptyTemplate(baseResources) =>
                    /\ DOMAIN after.o = {"ApiDistribution"}
                    /\ Prop(after.o.ApiDistribution, "Properties") = ExpectedProperties
      ]_vars

C7_Witness ==
    /\ pc = "done"
    /\ DOMAIN Get(result, <<"Resources">>).o = {"ApiDistribution"}
    /\ Has(result, <<"Resources", "ApiDistribution", "Properties", "Tags">>)

\* What one call of printSummary may write when the registry is `ps`:
\* nothing in the silent cases, else the heading and the pairing line.
SummaryCase(ps, written) ==
    LET infos == {i \in DOMAIN ps.l :
                    Get(ps.l[i], <<"constructor", "name">>) = Str("AwsInfo")}
        info  == ps.l[CHOOSE i \in infos : \A j \in infos : i <= j]
        outs  == Get(info, <<"gatheredData", "outputs">>)
        hits  == {i \in DOMAIN outs.l :
                    Prop(outs.l[i], "OutputKey") = Str("ApiDistribution")}
        entry == outs.l[CHOOSE i \in hits : \A j \in hits : i <= j]
        silent ==
            \/ infos = {}
            \/ ~HasKey(info, "gatheredData")
            \/ hits = {}
            \/ ~HasKey(entry, "OutputValue")
            \/ entry.o.OutputValue = Str("")
        domain == Cfg(<<"domain">>)
    IN  /\ silent => written = <<>>
        /\ ~silent =>
              /\ Len(written) = 2
              /\ written[1] = "CloudFront domain name"
              /\ domain.t = "undefined" =>
                    written[2] = "  " \o entry.o.OutputValue.s \o " (CNAME: -)"
              /\ domain.t = "string" =>
                    written[2] = "  " \o entry.o.OutputValue.s
                                      \o " (CNAME: " \o domain.s \o ")"

\* C8: a call of printSummary writes nothing when AwsInfo is missing, has no
\* gathered data, has no ApiDistribution output or that output has no
\* value; otherwise it writes the line pairing the value with `domain`,
\* "-" standing for an absent domain. It changes neither the configuration
\* nor the templates.
C8_SummaryIsSilentOrOneLine ==
    [][(summaryCalls' # summaryCalls) =>
          /\ SubSeq(console', 1, Len(console)) = console
          /\ SummaryCase(plugins', SubSeq(console', Len(console) + 1, Len(console')))
          /\ UNCHANGED <<custom, stage, tags, baseResources, resourcesYml,
                         resources, result>>
      ]_vars

C8_Witness ==
    /\ summaryCalls > 0
    /\ ~Configured(<<"domain">>)
    /\ console = <<"CloudFront domain name", "  d111.cloudfront.net (CNAME: -)">>

\* The order the claim states: Policies before TTL.
ClaimedOrder ==
    <<"prepareLogging", "prepareDomain", "preparePriceClass", "prepareOrigins",
      "prepareCookies", "prepareHeaders", "preparePolicies", "prepareTTL",
      "prepareQueryString", "prepareComment", "prepareCertificate", "prepareWaf",
      "prepareCompress", "prepareMinimumProtocolVersion">>

\* The order of the calls in the source: TTL before Policies.
SourceOrder ==
    <<"prepareLogging", "prepareDomain", "preparePriceClass", "prepareOrigins",
      "prepareCookies", "prepareHeaders", "prepareTTL", "preparePolicies",
      "prepareQueryString", "prepareComment", "prepareCertificate", "prepareWaf",
      "prepareCompress", "prepareMinimumProtocolVersion">>

IsPrefix(a, b) == Len(a) <= Len(b) /\ a = SubSeq(b, 1, Len(a))

RunsInOrder(order) ==
    /\ IsPrefix(applied, order)
    /\ pc \in {"tags", "merge", "done", "failed"} => applied = order
    /\ tagsApplied => applied = order /\ pc \in {"merge", "done"}

\* C9 as stated: every run applies each of the 14 rules once, in the order
\* Logging, Domain, PriceClass, Origins, Cookies, Headers, Policies, TTL,
\* QueryString, Comment, Certificate, WAF, Compress, MinimumProtocolVersion,
\* and the tag conversion comes only after all 14.
C9_ClaimedRuleOrder == RunsInOrder(ClaimedOrder)

\* C9 amended: the same with TTL before Policies, the order of the source.
C9_SourceRuleOrder == RunsInOrder(SourceOrder)

C9_Witness ==
    /\ pc = "done"
    /\ tagsApplied
    /\ Len(applied) = 14
    /\ applied[7] = "prepareTTL"
    /\ applied[8] = "preparePolicies"

LoggingBlockWhole(dc) ==
    /\ Has(dc, <<"Logging">>) <=> Configured(<<"logging", "bucket">>)
    /\ Has(dc, <<"Logging">>) =>
          /\ Get(dc, <<"Logging", "Bucket">>) = Cfg(<<"logging", "bucket">>)
          /\ Get(dc, <<"Logging", "Prefix">>) =
                (IF Configured(<<"logging", "prefix">>)
                 THEN Cfg(<<"logging", "prefix">>) ELSE Str(""))

CertificateBlockWhole(dc) ==
    Has(dc, <<"ViewerCertificate">>) =>
        Has(dc, <<"ViewerCertificate", "AcmCertificateArn">>)

WafFollowsConfig(dc) == Has(dc, <<"WebACLId">>) <=> Configured(<<"waf">>)

\* C10 as stated: after every rule and in the final output Logging is absent
\* exactly when logging.bucket is not configured and otherwise carries
\* Bucket and Prefix, ViewerCertificate when present carries
\* AcmCertificateArn, and WebACLId is present exactly when waf is configured.
C10_BlocksWholeAfterEveryRule ==
    /\ Len(applied) >= 1 =>
          /\ LoggingBlockWhole(DC)
          /\ CertificateBlockWhole(DC)
          /\ WafFollowsConfig(DC)
    /\ pc = "done" =>
          /\ LoggingBlockWhole(Get(result, DCPath))
          /\ CertificateBlockWhole(Get(result, DCPath))
          /\ WafFollowsConfig(Get(result, DCPath))

\* C10 amended: the same, with WebACLId present exactly when waf is
\* configured from the WAF rule onward; before that rule it is whatever the
\* base template holds.
C10_BlocksWholeWafFromItsRule ==
    /\ Len(applied) >= 1 =>
          /\ LoggingBlockWhole(DC)
          /\ CertificateBlockWhole(DC)
          /\ (\E i \in DOMAIN applied : applied[i] = "prepareWaf") => WafFollowsConfig(DC)
    /\ pc = "done" =>
          /\ LoggingBlockWhole(Get(result, DCPath))
          /\ CertificateBlockWhole(Get(result, DCPath))
          /\ WafFollowsConfig(Get(result, DCPath))

C10_Witness ==
    /\ pc = "done"
    /\ Configured(<<"logging", "prefix">>)
    /\ ~Configured(<<"logging", "bucket">>)
    /\ ~Has(Get(result, DCPath), <<"Logging">>)
    /\ ~Has(Get(result, DCPath), <<"WebACLId">>)

====
